---- MODULE Spec2Model ----
(***************************************************************************)
(* Model of src/script.js: the sticky header, the mobile menu, the scroll  *)
(* reveal engine with its number counter, and the video mockup.            *)
(*                                                                         *)
(* The browser is the environment: it delivers click and scroll events,    *)
(* IntersectionObserver batches, animation frames and timers.  Every event *)
(* handler runs to completion, so one action models one dispatched event   *)
(* with every listener the event reaches.                                  *)
(*                                                                         *)
(* Document assumed by the model: the toggle control (.mobile-toggle) and  *)
(* the .nav-link elements are distinct, un-nested elements (a button and   *)
(* anchors); a .nav-link may sit inside or outside .nav-list, and so may   *)
(* the toggle control.                                                     *)
(***************************************************************************)
EXTENDS Integers, Sequences, FiniteSets, TLC

VARIABLES
    anchors,         \* which anchor elements the document has:
                     \* [header, menuBtn, navList, playBtns : BOOLEAN]
    headerScrolled,  \* header.classList contains 'header-scrolled'
    scrollHist,      \* the scroll events handled so far: [s, before, after]
    menu,            \* [navList, menuBtn: 'active' markers, aria: aria-expanded]
    menu0,           \* the menu markers of the document at startup
    btnInNav,        \* TRUE when the toggle control sits inside .nav-list
    clicks,          \* number of click events dispatched so far
    toggleClicks,    \* number of clicks on the toggle control so far
    onlyToggle,      \* TRUE while every menu click so far was on the toggle control
    transitions,     \* number of toggleMenu calls so far
    now,             \* the browser's clock, in ms since the time origin
    btnLabel,        \* innerHTML of each .video-play-btn
    btnScale,        \* style.transform of each .video-play-btn
    timers,          \* pending setTimeout callbacks, in registration order
    alerts,          \* number of alert() notices shown so far
    videoClicks,     \* number of clicks on .video-play-btn controls so far
    preLabel,        \* per video click, the label the control had just before it
    revealElements,  \* querySelectorAll('.reveal-up, .reveal-left, .reveal-right'),
                     \* in document order
    staggerContainers, \* querySelectorAll('.stagger-grid'): the children of each
                     \* container, in document order
    observed,        \* the IntersectionObserver's observation targets
    revealUp,        \* elements whose classList contains 'reveal-up'
    transitionDelay, \* style.transitionDelay of each element, in ms (-1: unset)
    visible,         \* elements whose classList contains 'visible'
    reported,        \* per element, the intersection state last queued by the observer
    queue,           \* the observer's queued entries, not yet delivered
    runs,            \* the animateValue runs started so far, in start order
    text,            \* innerHTML of each element, as a sequence of characters
    dataCount,       \* the data-count attribute of each element
    dataSuffix,      \* the data-suffix attribute of each element
    animateCalls,    \* per element, the number of animateValue calls so far
    visibleAdds,     \* per element, how often 'visible' went from absent to present
    last             \* the last event: [ev, pre (menu before it), who, id]

headerVars == <<headerScrolled, scrollHist>>
menuVars == <<menu, menu0, btnInNav, clicks, toggleClicks, onlyToggle, transitions>>
videoVars == <<btnLabel, btnScale, timers, alerts, videoClicks, preLabel>>
revealVars == <<revealElements, staggerContainers, observed, revealUp, transitionDelay, visible, reported, queue,
                animateCalls, visibleAdds>>
counterVars == <<runs, text, dataCount, dataSuffix>>
vars == <<anchors, headerVars, menuVars, now, videoVars, revealVars, counterVars, last>>

Event(e, who, id) == [ev |-> e, pre |-> menu, who |-> who, id |-> id]

----------------------------------------------------------------------------
(* Bounds *)

MaxClicks == 4
MaxScrolls == 3
MaxVideoClicks == 2
MaxVideoTime == 1600
MaxTime == 3000
MaxQueue == 3

----------------------------------------------------------------------------
(* CONFIG, src/script.js:20-25 *)

scrollThreshold == 50
counterDuration == 2000
staggerDelay == 100

----------------------------------------------------------------------------
(* 1. Sticky header *)

ScrollOffsets == {0, 49, 50, 51, 120}

\* Mutant: the threshold itself counts as scrolled.
handleScroll_AtThreshold(s) == s >= scrollThreshold

\* handleScroll: the marker after a scroll event at offset s.
handleScroll(s) == s > scrollThreshold

\* initStickyHeader installs the listener only when .header exists.
headerInstalled == anchors.header

\* Mutant: the scroll listener also closes the menu.
Scroll_ClosesMenu(s) ==
    /\ Len(scrollHist) < MaxScrolls
    /\ headerScrolled' = IF headerInstalled THEN handleScroll(s) ELSE headerScrolled
    /\ scrollHist' = Append(scrollHist, [s |-> s, before |-> headerScrolled,
                                         after |-> headerScrolled'])
    /\ menu' = [menu EXCEPT !.navList = FALSE, !.menuBtn = FALSE]
    /\ last' = Event("scroll", "window", s)
    /\ UNCHANGED anchors
    /\ UNCHANGED <<menu0, btnInNav, clicks, toggleClicks, onlyToggle, transitions,
                   now, videoVars, revealVars, counterVars>>

Scroll(s) ==
    /\ Len(scrollHist) < MaxScrolls
    /\ headerScrolled' = IF headerInstalled THEN handleScroll(s) ELSE headerScrolled
    /\ scrollHist' = Append(scrollHist, [s |-> s, before |-> headerScrolled,
                                         after |-> headerScrolled'])
    /\ last' = Event("scroll", "window", s)
    /\ UNCHANGED anchors
    /\ UNCHANGED <<menuVars, now, videoVars, revealVars, counterVars>>

----------------------------------------------------------------------------
(* 2. Mobile menu *)

\* Where a click can land, as the menu's listeners see it.
\*   toggle    : the toggle control or a descendant of it
\*   navLink   : a .nav-link inside .nav-list
\*   outerLink : a .nav-link outside .nav-list
\*   navItem   : inside .nav-list, not a .nav-link
\*   outside   : anywhere else
MenuTargets == {"toggle", "navLink", "outerLink", "navItem", "outside"}

AriaValues == {"absent", "true", "false"}

\* String(b), as setAttribute stores a boolean.
BoolToString(b) == IF b THEN "true" ELSE "false"

navListContains(t) == t \in {"navLink", "navItem"} \/ (t = "toggle" /\ btnInNav)
menuBtnContains(t) == t = "toggle"
isNavLink(t) == t \in {"navLink", "outerLink"}

\* Mutant: aria-expanded written from the state before the flip.
toggleMenu_StaleAria(m) ==
    [navList |-> ~m.navList, menuBtn |-> ~m.menuBtn, aria |-> BoolToString(m.navList)]

\* toggleMenu applied to menu state m.
toggleMenu(m) ==
    LET isActive == m.navList
    IN  [navList |-> ~m.navList,
         menuBtn |-> ~m.menuBtn,
         aria    |-> BoolToString(~isActive)]

\* Mutant: the link listener is not attached.
linkClickHandler_Missing(m) == m

\* The listener on each .nav-link.
linkClickHandler(m) == IF m.navList THEN toggleMenu(m) ELSE m

\* Mutant: the navigation list is not excluded.
outsideClickCond_NoNavCheck(m, t) == ~menuBtnContains(t) /\ m.navList

\* Mutant: the toggle control is not excluded.
outsideClickCond_NoBtnCheck(m, t) == ~navListContains(t) /\ m.navList

\* Mutant: the negations of the containment tests are forgotten.
outsideClickCond_Inverted(m, t) ==
    navListContains(t) /\ menuBtnContains(t) /\ m.navList

\* Mutant: the 'active' test is dropped.
outsideClickCond_NoActiveCheck(m, t) == ~navListContains(t) /\ ~menuBtnContains(t)

\* The condition of the listener on document.
outsideClickCond(m, t) ==
    ~navListContains(t) /\ ~menuBtnContains(t) /\ m.navList

documentClickHandler(m, t) == IF outsideClickCond(m, t) THEN toggleMenu(m) ELSE m

\* The listeners a click on t reaches, in dispatch order: the target's own
\* listener first, the document's last.
menuAfterTarget(m, t) ==
    IF menuBtnContains(t) THEN toggleMenu(m)
    ELSE IF isNavLink(t) THEN linkClickHandler(m)
    ELSE m

menuAfterClick(m, t) == documentClickHandler(menuAfterTarget(m, t), t)

\* Number of toggleMenu calls a click on t makes from menu state m.
callsOnClick(m, t) ==
    (IF menuAfterTarget(m, t) # m THEN 1 ELSE 0)
    + (IF outsideClickCond(menuAfterTarget(m, t), t) THEN 1 ELSE 0)

\* Mutant: the menu is wired only when the header exists too.
menuInstalled_NeedsHeader == anchors.header /\ anchors.menuBtn /\ anchors.navList

\* if (!menuBtn || !navList) return: no listener is installed.
menuInstalled == anchors.menuBtn /\ anchors.navList

\* A click can only land on an element the document has.
targetExists(t) ==
    /\ t = "toggle" => anchors.menuBtn
    /\ t \in {"navLink", "navItem"} => anchors.navList

\* What the menu's listeners do on a click on t.
MenuClick(t) ==
    /\ clicks < MaxClicks
    /\ menu' = IF menuInstalled THEN menuAfterClick(menu, t) ELSE menu
    /\ clicks' = clicks + 1
    /\ toggleClicks' = IF t = "toggle" THEN toggleClicks + 1 ELSE toggleClicks
    /\ onlyToggle' = (onlyToggle /\ t = "toggle")
    /\ transitions' = IF menuInstalled THEN transitions + callsOnClick(menu, t)
                      ELSE transitions
    /\ UNCHANGED <<menu0, btnInNav>>

Click(t) ==
    /\ targetExists(t)
    /\ MenuClick(t)
    /\ last' = Event(t, t, 0)
    /\ UNCHANGED anchors
    /\ UNCHANGED <<headerVars, now, videoVars, revealVars, counterVars>>

ClickToggle == Click("toggle")
ClickNavLink == \E t \in {"navLink", "outerLink"} : Click(t)
ClickNavItem == Click("navItem")
ClickOutside == Click("outside")

----------------------------------------------------------------------------
(* Time *)

VideoTimeSteps == {150, 650}

\* Time passes; timers may fire late, never early.
Tick(d) ==
    /\ now + d <= MaxTime
    /\ now' = now + d
    /\ last' = Event("tick", "clock", 0)
    /\ UNCHANGED anchors
    /\ UNCHANGED <<headerVars, menuVars, videoVars, revealVars, counterVars>>

----------------------------------------------------------------------------
(* 5. Video mockup *)

Buttons == {"b1", "b2"}

\* The markup's label of each control, and the loading indicator.
MarkupLabel(b) == IF b = "b1" THEN "play-1" ELSE "play-2"
LoadingLabel == "<span style=\"font-size: 0.8rem;\">Carregando...</span>"

scaleDelay == 150
restoreDelay == 800

\* Mutant: originalText is read after the label was overwritten.
captureOriginalText_AfterWrite(label) == LoadingLabel

\* const originalText = btn.innerHTML
captureOriginalText(label) == label

\* alert(...) in the restore callback.
noticesOnRestore == 1

\* The click listener of control b; playBtn is outside .nav-list and the
\* toggle control, so the document listener of the menu runs after it.
ClickPlayBtn(b) ==
    /\ anchors.playBtns
    /\ videoClicks < MaxVideoClicks
    /\ MenuClick("outside")
    /\ btnScale' = [btnScale EXCEPT ![b] = "scale(0.9)"]
    /\ btnLabel' = [btnLabel EXCEPT ![b] = LoadingLabel]
    /\ timers' = timers \o
          << [kind |-> "scale", btn |-> b, delay |-> scaleDelay,
              due |-> now + scaleDelay, originalText |-> "", id |-> videoClicks + 1],
             [kind |-> "restore", btn |-> b, delay |-> restoreDelay,
              due |-> now + restoreDelay,
              originalText |-> captureOriginalText(btnLabel[b]),
              id |-> videoClicks + 1] >>
    /\ videoClicks' = videoClicks + 1
    /\ preLabel' = Append(preLabel, btnLabel[b])
    /\ alerts' = alerts
    /\ last' = Event("playBtn", b, videoClicks + 1)
    /\ UNCHANGED anchors
    /\ UNCHANGED <<headerVars, now, revealVars, counterVars>>

RemoveAt(seq, i) == SubSeq(seq, 1, i - 1) \o SubSeq(seq, i + 1, Len(seq))

\* A timer may run once it is due and every timer set earlier with an equal
\* or shorter delay has run.
TimerReady(i) ==
    /\ timers[i].due <= now
    /\ \A j \in 1..(i - 1) : timers[j].delay > timers[i].delay

\* setTimeout(() => btn.style.transform = 'scale(1)', 150)
ScaleTimerFires(i) ==
    /\ timers[i].kind = "scale"
    /\ TimerReady(i)
    /\ btnScale' = [btnScale EXCEPT ![timers[i].btn] = "scale(1)"]
    /\ timers' = RemoveAt(timers, i)
    /\ last' = Event("scaleTimer", timers[i].btn, timers[i].id)
    /\ UNCHANGED anchors
    /\ UNCHANGED <<headerVars, menuVars, now, btnLabel, alerts, videoClicks, preLabel,
                   revealVars, counterVars>>

\* setTimeout(() => { btn.innerHTML = originalText; alert(...) }, 800)
RestoreTimerFires(i) ==
    /\ timers[i].kind = "restore"
    /\ TimerReady(i)
    /\ btnLabel' = [btnLabel EXCEPT ![timers[i].btn] = timers[i].originalText]
    /\ alerts' = alerts + noticesOnRestore
    /\ timers' = RemoveAt(timers, i)
    /\ last' = Event("restoreTimer", timers[i].btn, timers[i].id)
    /\ UNCHANGED anchors
    /\ UNCHANGED <<headerVars, menuVars, now, btnScale, videoClicks, preLabel,
                   revealVars, counterVars>>

----------------------------------------------------------------------------
(* The document's reveal-tracked elements *)

\* r1 carries no data-count; g1 and g2 do.  Where the three elements sit is
\* drawn from RevealDocs at startup.
Elements == {"r1", "g1", "g2"}

\* A document's reveal markup: the standalone tagged elements, the children of
\* each .stagger-grid, and the elements the markup itself tags .reveal-up.
RevealDoc(standalone, containers, up) ==
    [revealElements |-> standalone, staggerContainers |-> containers, markupUp |-> up]

\* r1 standalone; g1 tagged .reveal-left and first child of the grid; g2 second child.
MainRevealDoc == RevealDoc(<<"r1", "g1">>, << <<"g1", "g2">> >>, {"r1"})

\* Nothing is tagged and there is no grid.
CounterRevealDoc == RevealDoc(<<"g2">>, <<>>, {})
EmptyRevealDoc == RevealDoc(<<>>, <<>>, {})

RevealDocs ==
    { MainRevealDoc,
      EmptyRevealDoc,
      RevealDoc(<<>>, << <<"g1", "g2">>, <<"r1">> >>, {}),
      RevealDoc(<<"g2">>, << <<"r1", "g1", "g2">> >>, {}),
      RevealDoc(<<"r1">>, << <<"g1">>, <<"g2">> >>, {"r1"}) }

NoAttr == [has |-> FALSE, val |-> <<>>]
Attr(v) == [has |-> TRUE, val |-> v]

\* The data-count and data-suffix attributes the markup may give to g1.
CountAttrs == {Attr(<<"0">>), Attr(<<"7">>), Attr(<<"5", "0">>)}
SuffixAttrs == {NoAttr, Attr(<<"%">>)}

Range(f) == {f[i] : i \in DOMAIN f}

----------------------------------------------------------------------------
(* 4. Number counter *)

Digits == <<"0", "1", "2", "3", "4", "5", "6", "7", "8", "9">>

\* Number -> String for a non-negative integer.
RECURSIVE NumStr(_)
NumStr(n) == IF n < 10 THEN <<Digits[n + 1]>>
             ELSE NumStr(n \div 10) \o <<Digits[(n % 10) + 1]>>

DigitVal(c) == CHOOSE d \in 0..9 : Digits[d + 1] = c

\* Unary plus on a string of decimal digits ("" converts to 0).
RECURSIVE ToNumber(_)
ToNumber(str) ==
    IF str = <<>> THEN 0
    ELSE ToNumber(SubSeq(str, 1, Len(str) - 1)) * 10 + DigitVal(str[Len(str)])

RECURSIVE GCD(_, _)
GCD(a, b) == IF b = 0 THEN a ELSE GCD(b, a % b)

Pow4(x) == x * x * x * x

NullStart == -1

\* !startTimestamp: null and 0 are both falsy.
startUnset(start) == start = NullStart \/ start = 0

\* Math.min((timestamp - startTimestamp) / duration, 1), as the fraction num/den.
Progress(timestamp, start) ==
    IF timestamp - start >= counterDuration
    THEN [num |-> 1, den |-> 1]
    ELSE LET g == GCD(counterDuration, timestamp - start)
         IN  [num |-> (timestamp - start) \div g, den |-> counterDuration \div g]

\* Mutant: Math.pow(1 - progress, 4) without the leading "1 -".
easedValue_Inverted(p, target) ==
    (target * Pow4(p.den - p.num)) \div Pow4(p.den)

\* Math.floor((1 - Math.pow(1 - progress, 4)) * target)
easedValue(p, target) ==
    (target * (Pow4(p.den) - Pow4(p.den - p.num))) \div Pow4(p.den)

\* Mutant: the final write leaves the suffix out.
finalHtml_NoSuffix(target, suffix) == NumStr(target)

\* target + suffix
finalHtml(target, suffix) == NumStr(target) \o suffix

\* animateValue(obj): the run's closure before its first frame.
animateValue(obj) ==
    [el     |-> obj,
     target |-> ToNumber(dataCount[obj].val),
     suffix |-> IF dataSuffix[obj].has /\ dataSuffix[obj].val # <<>>
                THEN dataSuffix[obj].val ELSE <<>>,
     start  |-> NullStart,
     first  |-> -1,
     prev   |-> -1,
     shown  |-> -1,
     html   |-> <<>>,
     frames |-> 0,
     done   |-> FALSE]

\* Mutant: startTimestamp is one variable shared by all runs instead of one
\* per call of animateValue.
step_SharedStart(run, timestamp) ==
    LET start    == IF startUnset(runs[1].start) THEN timestamp ELSE runs[1].start
        progress == Progress(timestamp, start)
        eased    == easedValue(progress, run.target)
        more     == progress.num < progress.den
    IN  [run EXCEPT
           !.start  = start,
           !.first  = IF run.frames = 0 THEN timestamp ELSE run.first,
           !.prev   = run.shown,
           !.shown  = IF more THEN eased ELSE run.target,
           !.html   = IF more THEN NumStr(eased) \o run.suffix
                      ELSE finalHtml(run.target, run.suffix),
           !.frames = IF run.frames < 2 THEN run.frames + 1 ELSE 2,
           !.done   = ~more]

\* step(timestamp) of one run.
step(run, timestamp) ==
    LET start    == IF startUnset(run.start) THEN timestamp ELSE run.start
        progress == Progress(timestamp, start)
        eased    == easedValue(progress, run.target)
        more     == progress.num < progress.den
    IN  [run EXCEPT
           !.start  = start,
           !.first  = IF run.frames = 0 THEN timestamp ELSE run.first,
           !.prev   = run.shown,
           !.shown  = IF more THEN eased ELSE run.target,
           !.html   = IF more THEN NumStr(eased) \o run.suffix
                      ELSE finalHtml(run.target, run.suffix),
           !.frames = IF run.frames < 2 THEN run.frames + 1 ELSE 2,
           !.done   = ~more]

\* Mutant: one frame request shared by all runs, so a new run replaces the
\* earlier runs' request.
Scheduled_OnlyLatest ==
    {i \in DOMAIN runs : ~runs[i].done /\ \A j \in DOMAIN runs : j <= i}

\* The runs whose step is scheduled for the next frame.
Scheduled == {i \in DOMAIN runs : ~runs[i].done}

\* One animation frame, d ms after the previous event: every scheduled step
\* runs with the frame's timestamp, in the order the steps were scheduled.
Frame(d) ==
    /\ Scheduled # {}
    /\ now + d <= MaxTime
    /\ now' = now + d
    /\ runs' = [i \in DOMAIN runs |->
                   IF i \in Scheduled THEN step(runs[i], now') ELSE runs[i]]
    /\ text' = [e \in Elements |->
                   LET mine == {i \in Scheduled : runs[i].el = e}
                   IN  IF mine = {} THEN text[e]
                       ELSE runs'[CHOOSE i \in mine : \A j \in mine : j <= i].html]
    /\ last' = Event("frame", "window", 0)
    /\ UNCHANGED anchors
    /\ UNCHANGED <<headerVars, menuVars, videoVars, revealVars,
                   dataCount, dataSuffix>>

\* Frame spacings: a frame in the same millisecond, in-between frames, and a
\* frame that overshoots the duration.
FrameTimeSteps == {0, 500, 2500}

----------------------------------------------------------------------------
(* 3. Scroll reveal *)

StaggerChildren == UNION {Range(c) : c \in Range(staggerContainers)}

\* observer.observe(el) on a target that is already observed changes nothing.
observe(targets, e) == targets \cup {e}

\* Mutant: the target stays observed.
unobserve_Missing(targets, e) == targets

\* observer.unobserve(el)
unobserve(targets, e) == targets \ {e}

\* forEach(el => observer.observe(el)) over a list of elements.
RECURSIVE observeAll(_, _)
observeAll(targets, els) ==
    IF els = <<>> THEN targets
    ELSE observeAll(observe(targets, Head(els)), Tail(els))

\* The stagger loop's observe calls, container by container.
RECURSIVE observeChildren(_, _)
observeChildren(targets, containers) ==
    IF containers = <<>> THEN targets
    ELSE observeChildren(observeAll(targets, Head(containers)), Tail(containers))

\* The observation targets after initScrollReveal.
initObserved == observeChildren(observeAll({}, revealElements), staggerContainers)

initRevealUp(markupUp) == markupUp \cup StaggerChildren

\* Mutant: the index keeps counting from one container to the next.
initTransitionDelay_RunningIndex(e) ==
    IF e \in StaggerChildren
    THEN LET k == CHOOSE k \in DOMAIN staggerContainers :
                      e \in Range(staggerContainers[k])
             c == staggerContainers[k]
             i == CHOOSE i \in DOMAIN c : c[i] = e
             before == IF k = 1 THEN 0 ELSE Len(staggerContainers[1])
         IN  (before + i - 1) * staggerDelay
    ELSE -1

\* `${index * CONFIG.staggerDelay}ms` for the child at index (from 0) of its container.
initTransitionDelay(e) ==
    IF e \in StaggerChildren
    THEN LET c == CHOOSE c \in Range(staggerContainers) : e \in Range(c)
             i == CHOOSE i \in DOMAIN c : c[i] = e
         IN  (i - 1) * staggerDelay
    ELSE -1

\* The browser queues an entry for an observed element whose intersection
\* state changed since the entry it queued last (or that has none yet).
QueueEntry(e, b) ==
    /\ e \in observed
    /\ Len(queue) < MaxQueue
    /\ reported[e] # (IF b THEN "in" ELSE "out")
    /\ queue' = Append(queue, [target |-> e, isIntersecting |-> b])
    /\ reported' = [reported EXCEPT ![e] = IF b THEN "in" ELSE "out"]
    /\ last' = Event("intersection", e, 0)
    /\ UNCHANGED anchors
    /\ UNCHANGED <<headerVars, menuVars, now, videoVars, counterVars,
                   revealElements, staggerContainers,
                   observed, revealUp, transitionDelay, visible,
                   animateCalls, visibleAdds>>

\* Mutant: the entry's isIntersecting flag is not tested.
revealEntry_IgnoreFlag(st, entry) ==
    LET e == entry.target
        counts == dataCount[e].has
    IN  [observed     |-> unobserve(st.observed, e),
         visible      |-> st.visible \cup {e},
         visibleAdds  |-> IF e \in st.visible THEN st.visibleAdds
                          ELSE [st.visibleAdds EXCEPT ![e] = @ + 1],
         runs         |-> IF counts THEN Append(st.runs, animateValue(e))
                          ELSE st.runs,
         animateCalls |-> IF counts THEN [st.animateCalls EXCEPT ![e] = @ + 1]
                          ELSE st.animateCalls]

\* The body of revealCallback's forEach for one entry, on state st.
revealEntry(st, entry) ==
    IF entry.isIntersecting
    THEN LET e == entry.target
             counts == dataCount[e].has
         IN  [observed     |-> unobserve(st.observed, e),
              visible      |-> st.visible \cup {e},
              visibleAdds  |-> IF e \in st.visible THEN st.visibleAdds
                               ELSE [st.visibleAdds EXCEPT ![e] = @ + 1],
              runs         |-> IF counts THEN Append(st.runs, animateValue(e))
                               ELSE st.runs,
              animateCalls |-> IF counts THEN [st.animateCalls EXCEPT ![e] = @ + 1]
                               ELSE st.animateCalls]
    ELSE st

\* entries.forEach(...)
RECURSIVE revealCallback(_, _)
revealCallback(st, entries) ==
    IF entries = <<>> THEN st
    ELSE revealCallback(revealEntry(st, Head(entries)), Tail(entries))

\* The browser delivers every queued entry in one call of revealCallback.
Deliver ==
    /\ queue # <<>>
    /\ LET st == revealCallback([observed |-> observed, visible |-> visible,
                                 visibleAdds |-> visibleAdds, runs |-> runs,
                                 animateCalls |-> animateCalls], queue)
       IN  /\ observed' = st.observed
           /\ visible' = st.visible
           /\ visibleAdds' = st.visibleAdds
           /\ runs' = st.runs
           /\ animateCalls' = st.animateCalls
    /\ queue' = <<>>
    /\ last' = Event("callback", "observer", 0)
    /\ UNCHANGED anchors
    /\ UNCHANGED <<headerVars, menuVars, now, videoVars, revealElements,
                   staggerContainers, revealUp, transitionDelay, reported, text,
                   dataCount, dataSuffix>>

----------------------------------------------------------------------------
(* Startup *)

\* The markup may preset the menu's markers and the counters' attributes.
MenuDocs == [navList : BOOLEAN, menuBtn : BOOLEAN, aria : AriaValues]
PlainMenuDoc == [navList |-> FALSE, menuBtn |-> FALSE, aria |-> "false"]
OpenMenuDoc == [navList |-> TRUE, menuBtn |-> TRUE, aria |-> "true"]

AllAnchors == [header |-> TRUE, menuBtn |-> TRUE, navList |-> TRUE, playBtns |-> TRUE]
AnchorSets == [header : BOOLEAN, menuBtn : BOOLEAN, navList : BOOLEAN, playBtns : BOOLEAN]

\* The markers an element that is missing cannot carry.
menuOfDoc(m, a) ==
    [navList |-> m.navList /\ a.navList,
     menuBtn |-> m.menuBtn /\ a.menuBtn,
     aria    |-> IF a.menuBtn THEN m.aria ELSE "absent"]

\* The documents a specification starts from: a set of choices per field.
PlainDocs ==
    [anchorSets  |-> {AllAnchors},
     headerMarks |-> {FALSE},
     menuDocs    |-> {PlainMenuDoc},
     btnPlaces   |-> {FALSE},
     countAttrs  |-> {Attr(<<"5", "0">>)},
     suffixAttrs |-> {Attr(<<"%">>)},
     revealDocs  |-> {MainRevealDoc}]

AllDocs ==
    [anchorSets  |-> AnchorSets,
     headerMarks |-> BOOLEAN,
     menuDocs    |-> MenuDocs,
     btnPlaces   |-> BOOLEAN,
     countAttrs  |-> CountAttrs,
     suffixAttrs |-> SuffixAttrs,
     revealDocs  |-> RevealDocs]

\* The state once init() has returned, for a document drawn from docs.
InitWith(docs) ==
    /\ anchors \in docs.anchorSets
    /\ headerScrolled \in {h /\ anchors.header : h \in docs.headerMarks}
    /\ scrollHist = <<>>
    /\ menu \in {menuOfDoc(m, anchors) : m \in docs.menuDocs}
    /\ menu0 = menu
    /\ btnInNav \in {p /\ anchors.menuBtn /\ anchors.navList : p \in docs.btnPlaces}
    /\ clicks = 0
    /\ toggleClicks = 0
    /\ onlyToggle = TRUE
    /\ transitions = 0
    /\ now = 0
    /\ btnLabel = [b \in Buttons |-> MarkupLabel(b)]
    /\ btnScale = [b \in Buttons |-> "none"]
    /\ timers = <<>>
    /\ alerts = 0
    /\ videoClicks = 0
    /\ preLabel = <<>>
    /\ \E doc \in docs.revealDocs :
          /\ revealElements = doc.revealElements
          /\ staggerContainers = doc.staggerContainers
          /\ revealUp = initRevealUp(doc.markupUp)
    /\ observed = initObserved
    /\ transitionDelay = [e \in Elements |-> initTransitionDelay(e)]
    /\ visible = {}
    /\ reported = [e \in Elements |-> "none"]
    /\ queue = <<>>
    /\ runs = <<>>
    /\ text = [e \in Elements |-> <<"0">>]
    /\ \E c \in docs.countAttrs, x \in docs.suffixAttrs :
          /\ dataCount = [e \in Elements |->
                IF e = "g1" THEN c ELSE IF e = "g2" THEN Attr(<<"8">>) ELSE NoAttr]
          /\ dataSuffix = [e \in Elements |->
                IF e = "g1" THEN x ELSE IF e = "g2" THEN Attr(<<"+">>) ELSE NoAttr]
    /\ animateCalls = [e \in Elements |-> 0]
    /\ visibleAdds = [e \in Elements |-> 0]
    /\ last = Event("init", "document", 0)

Init == InitWith(AllDocs)

InitMenu == InitWith([PlainDocs EXCEPT !.menuDocs = MenuDocs, !.btnPlaces = BOOLEAN])
InitVideo == InitWith([PlainDocs EXCEPT !.menuDocs = {PlainMenuDoc, OpenMenuDoc}])
InitReveal ==
    InitWith([PlainDocs EXCEPT !.countAttrs = CountAttrs, !.suffixAttrs = SuffixAttrs])

NextMenu == ClickToggle \/ ClickNavLink \/ ClickNavItem \/ ClickOutside

SpecMenu == InitMenu /\ [][NextMenu]_vars

VideoClick == \E b \in Buttons : ClickPlayBtn(b)
ScaleTimer == \E i \in 1..Len(timers) : ScaleTimerFires(i)
RestoreTimer == \E i \in 1..Len(timers) : RestoreTimerFires(i)
VideoTick == \E d \in VideoTimeSteps : now + d <= MaxVideoTime /\ Tick(d)

NextVideo == VideoClick \/ ScaleTimer \/ RestoreTimer \/ VideoTick

SpecVideo == InitVideo /\ [][NextVideo]_vars

Intersection == \E e \in Elements, b \in BOOLEAN : QueueEntry(e, b)
AnimationFrame == \E d \in FrameTimeSteps : Frame(d)

NextReveal == Intersection \/ Deliver \/ AnimationFrame

SpecReveal == InitReveal /\ [][NextReveal]_vars

\* While a step is scheduled the browser keeps delivering frames, and their
\* timestamps keep growing (up to the model's horizon).
FrameLater == Frame(500)

InitCounter ==
    InitWith([PlainDocs EXCEPT !.revealDocs = {RevealDoc(<<"g1", "g2">>, <<>>, {})}])

SpecCounterFair == InitCounter /\ [][NextReveal]_vars /\ WF_vars(FrameLater)

\* The reveal engine over every document layout, without the counters' frames.
InitStagger == InitWith([PlainDocs EXCEPT !.revealDocs = RevealDocs])

NextStagger == Intersection \/ Deliver

SpecStagger == InitStagger /\ [][NextStagger]_vars

HeaderScroll == \E s \in ScrollOffsets : Scroll(s)

InitHeader == InitWith([PlainDocs EXCEPT !.headerMarks = BOOLEAN])

SpecHeader == InitHeader /\ [][HeaderScroll]_vars

Next == NextMenu \/ HeaderScroll \/ NextVideo \/ NextReveal

\* All four units over one page, with any subset of the anchors missing: a
\* page with one counter element and few user events.
MaxJointEvents == 2
JointOffsets == {50, 51}
JointFrameSteps == {1000, 2000}

InitJoint ==
    InitWith([PlainDocs EXCEPT !.anchorSets = AnchorSets,
                               !.menuDocs = {PlainMenuDoc, OpenMenuDoc},
                               !.revealDocs = {CounterRevealDoc, EmptyRevealDoc}])

userEvents == Len(scrollHist) + clicks

JointScroll == userEvents < MaxJointEvents /\ \E s \in JointOffsets : Scroll(s)
JointClick == userEvents < MaxJointEvents /\ NextMenu
JointVideoClick == userEvents < MaxJointEvents /\ ClickPlayBtn("b1")
JointTick == \E i \in 1..Len(timers) : timers[i].due > now /\ Tick(timers[i].due - now)
JointFrame == \E d \in JointFrameSteps : Frame(d)

NextJoint ==
    \/ JointScroll
    \/ JointClick
    \/ JointVideoClick
    \/ ScaleTimer
    \/ RestoreTimer
    \/ JointTick
    \/ Intersection
    \/ Deliver
    \/ JointFrame

SpecJoint == InitJoint /\ [][NextJoint]_vars

Spec == Init /\ [][Next]_vars

----------------------------------------------------------------------------
(* Properties of the mobile menu *)

Closed(m) == ~m.navList
Open(m) == m.navList

\* C1: starting Closed, after n clicks that were all on the toggle control the
\* menu is Open iff n is odd; and every click on the toggle control flips the
\* menu exactly once, the document listener included.
C1_ToggleParity ==
    /\ (onlyToggle /\ Closed(menu0)) => (Open(menu) <=> toggleClicks % 2 = 1)
    /\ last.ev = "toggle" => menu.navList = ~last.pre.navList

C1_Witness ==
    onlyToggle /\ Closed(menu0) /\ ~btnInNav /\ toggleClicks = 3 /\ Open(menu)

\* C2: a click on a .nav-link while the menu is Open leaves it Closed once the
\* link listener and the document listener have run.
C2_LinkCloses ==
    (isNavLink(last.ev) /\ Open(last.pre)) => Closed(menu)

C2_Witness ==
    last.ev = "outerLink" /\ Open(last.pre) /\ Closed(menu) /\ clicks >= 2

\* C3: a click outside .nav-list and the toggle control while the menu is Open
\* leaves it Closed.
C3_OutsideCloses ==
    (last.ev = "outside" /\ Open(last.pre)) => Closed(menu)

C3_Witness ==
    last.ev = "outside" /\ Open(last.pre) /\ Closed(menu) /\ clicks >= 2

\* C4: a click outside .nav-list and the toggle control while the menu is
\* Closed changes none of the two 'active' markers nor aria-expanded.
C4_OutsideClosedNoop ==
    (last.ev = "outside" /\ Closed(last.pre)) => menu = last.pre

C4_Witness ==
    /\ last.ev = "outside" /\ Closed(last.pre) /\ menu = last.pre
    /\ clicks >= 3 /\ transitions >= 2

\* C5: from a document where neither .nav-list nor the toggle control is
\* 'active', between handlers both markers agree, and after the first
\* transition aria-expanded is "true" iff Open and "false" iff Closed.
C5_IndicatorsAgree ==
    (~menu0.navList /\ ~menu0.menuBtn) =>
        /\ menu.navList = menu.menuBtn
        /\ transitions > 0 =>
              /\ menu.aria = "true" <=> Open(menu)
              /\ menu.aria = "false" <=> Closed(menu)

C5_Witness ==
    /\ ~menu0.navList /\ ~menu0.menuBtn /\ menu0.aria = "absent"
    /\ transitions >= 3 /\ Open(menu) /\ menu.menuBtn /\ menu.aria = "true"

----------------------------------------------------------------------------
(* Properties of the scroll reveal engine and the number counter *)

\* C6: 'visible' goes from absent to present at most once per element, is
\* never removed once present, and an element that carries it is no longer
\* observed, whatever entries and exits the observer reports.
C6_VisibleOnce ==
    \A e \in Elements :
        /\ visibleAdds[e] <= 1
        /\ visibleAdds[e] = 1 <=> e \in visible
        /\ e \in visible => e \notin observed

\* g1 is registered through both routes; it entered, left and entered again.
C6_Witness ==
    /\ "g1" \in visible /\ visibleAdds["g1"] = 1 /\ animateCalls["g1"] = 2
    /\ "r1" \in visible /\ "g2" \in observed /\ reported["g2"] = "out"

\* C7: animateValue is called at most once per element, also when one batch
\* carries several intersecting entries for the same element.
C7_AnimateOnce ==
    \A e \in Elements : animateCalls[e] <= 1

\* The text a finished run on e must leave: the target, then the suffix.
ExpectedFinal(e) ==
    NumStr(ToNumber(dataCount[e].val)) \o
        (IF dataSuffix[e].has THEN dataSuffix[e].val ELSE <<>>)

\* C8: when a run stops, the element's text is the target followed by the
\* suffix, for every frame spacing (data-count 50 with suffix % ends at 50%).
C8_FinalText ==
    \A i \in DOMAIN runs :
        runs[i].done =>
            /\ runs[i].html = ExpectedFinal(runs[i].el)
            /\ text[runs[i].el] = ExpectedFinal(runs[i].el)
            /\ (/\ dataCount[runs[i].el] = Attr(<<"5", "0">>)
                /\ dataSuffix[runs[i].el] = Attr(<<"%">>))
               => text[runs[i].el] = <<"5", "0", "%">>

\* A run whose first frame had timestamp 0 and that has stopped at 50%.
C8_Witness ==
    \E i \in DOMAIN runs :
        /\ runs[i].done /\ runs[i].first = 0 /\ runs[i].el = "g1"
        /\ text["g1"] = <<"5", "0", "%">>

\* C9: after every frame of a run the number it displays is in [0, target]
\* and not smaller than the number it displayed after the previous frame.
C9_ShownMonotone ==
    \A i \in DOMAIN runs :
        runs[i].shown # -1 =>
            /\ 0 <= runs[i].shown /\ runs[i].shown <= runs[i].target
            /\ runs[i].prev <= runs[i].shown

C9_Witness ==
    \E i \in DOMAIN runs :
        /\ runs[i].target = 50 /\ ~runs[i].done
        /\ runs[i].prev = 34 /\ runs[i].shown = 46

----------------------------------------------------------------------------
(* Properties of the video mockup *)

PendingRestores == {i \in DOMAIN timers : timers[i].kind = "restore"}

\* C10: right after a click the control shows the loading indicator; when
\* that click's 800 ms timer fires the label becomes the text the control had
\* just before that click; and every click gets exactly one notice, so with no
\* restore timer pending the notices equal the clicks.
C10_ClickCycle ==
    /\ last.ev = "playBtn" => btnLabel[last.who] = LoadingLabel
    /\ last.ev = "restoreTimer" => btnLabel[last.who] = preLabel[last.id]
    /\ alerts + Cardinality(PendingRestores) = videoClicks
    /\ PendingRestores = {} => alerts = videoClicks

\* Two clicks on one control, the second while the first timer was pending;
\* both timers have fired.
C10_Witness ==
    /\ last.ev = "restoreTimer" /\ last.id = 2 /\ timers = <<>>
    /\ videoClicks = 2 /\ alerts = 2
    /\ preLabel = <<MarkupLabel("b1"), LoadingLabel>>
    /\ btnLabel["b1"] = LoadingLabel

\* C11: once no timer of a control is pending, the control shows the label it
\* had before its first click, also when clicks arrived while an earlier
\* click's 800 ms timer was pending.
C11_FinalLabelOriginal ==
    \A b \in Buttons :
        (\A i \in DOMAIN timers : timers[i].btn # b) => btnLabel[b] = MarkupLabel(b)

----------------------------------------------------------------------------
(* Properties of the sticky header *)

\* C12: after every scroll event at offset s the header carries
\* 'header-scrolled' iff s > 50, whatever events came before, and an event at
\* the same offset as the one before it leaves the marker as it was.
C12_ScrolledIffAbove50 ==
    /\ \A i \in DOMAIN scrollHist :
          /\ scrollHist[i].after <=> scrollHist[i].s > 50
          /\ (i > 1 /\ scrollHist[i].s = scrollHist[i - 1].s)
                => scrollHist[i].after = scrollHist[i].before
    /\ scrollHist # <<>> => headerScrolled = scrollHist[Len(scrollHist)].after

\* Scrolled past the threshold, back onto it, and onto it again.
C12_Witness ==
    /\ Len(scrollHist) = 3
    /\ scrollHist[1].s = 51 /\ scrollHist[2].s = 50 /\ scrollHist[3].s = 50
    /\ scrollHist[1].after /\ ~headerScrolled

----------------------------------------------------------------------------
(* Properties of the stagger loop *)

\* C13: in every .stagger-grid the child at index i (from 0, within its own
\* container) is tagged 'reveal-up', is observed until it is revealed, and has
\* transition delay 100 * i ms, so delays strictly increase within a container.
C13_StaggerDelays ==
    \A k \in DOMAIN staggerContainers :
        \A j \in DOMAIN staggerContainers[k] :
            LET c == staggerContainers[k]
            IN  /\ c[j] \in revealUp
                /\ c[j] \notin visible => c[j] \in observed
                /\ transitionDelay[c[j]] = 100 * (j - 1)
                /\ j > 1 => transitionDelay[c[j]] > transitionDelay[c[j - 1]]

\* Two containers: the lone child of the second one starts again at 0 ms.
C13_Witness ==
    /\ staggerContainers = << <<"g1", "g2">>, <<"r1">> >>
    /\ transitionDelay = [r1 |-> 0, g1 |-> 0, g2 |-> 100]
    /\ "g2" \in visible /\ observed = {"r1", "g1"}

----------------------------------------------------------------------------
(* Properties of startup with missing anchors *)

noRevealTargets == revealElements = <<>> /\ staggerContainers = <<>>

\* C14: for every subset of missing anchors, a unit whose anchor is missing
\* reacts to no event and changes no state, and every unit whose anchors are
\* present reacts to its events as it does on a complete page.
C14_MissingAnchors ==
    /\ ~anchors.header => ~headerScrolled
    /\ ~(anchors.menuBtn /\ anchors.navList) => menu = menu0 /\ transitions = 0
    /\ noRevealTargets =>
          /\ observed = {} /\ visible = {} /\ runs = <<>>
          /\ \A e \in Elements : text[e] = <<"0">> /\ animateCalls[e] = 0
    /\ ~anchors.playBtns =>
          /\ timers = <<>> /\ alerts = 0
          /\ \A b \in Buttons : btnLabel[b] = MarkupLabel(b) /\ btnScale[b] = "none"
    /\ (anchors.header /\ last.ev = "scroll") => (headerScrolled <=> last.id > 50)
    /\ (anchors.menuBtn /\ anchors.navList) =>
          /\ last.ev = "toggle" => menu.navList = ~last.pre.navList
          /\ (last.ev \in {"navLink", "outerLink", "outside", "playBtn"} /\ Open(last.pre))
                => Closed(menu)
          /\ last.ev = "navItem" => menu = last.pre
    /\ (last.ev = "callback" /\ reported["g2"] = "in") =>
          "g2" \in visible /\ animateCalls["g2"] >= 1
    /\ last.ev = "playBtn" => btnLabel[last.who] = LoadingLabel

\* The header is missing and a scroll past the threshold left no marker, yet
\* the menu on the same page closed on a click on the toggle control.
C14_Witness ==
    /\ ~anchors.header /\ anchors.menuBtn /\ anchors.navList
    /\ scrollHist # <<>> /\ scrollHist[1].s = 51 /\ ~headerScrolled
    /\ last.ev = "toggle" /\ Open(last.pre) /\ Closed(menu)

----------------------------------------------------------------------------
(* Properties of the counter's run *)

\* The run's start is fixed and the horizon leaves room for its duration.
Started(i) ==
    /\ i \in DOMAIN runs
    /\ ~startUnset(runs[i].start)
    /\ runs[i].start + counterDuration <= MaxTime

\* C15: once a run has started and frames keep coming with growing
\* timestamps, the run reaches progress 1 and stops; only a frame at
\* start + 2000 or later ends it, until then it stays scheduled whatever
\* else happens, and once it has stopped neither the run nor, through it, the
\* element's text changes again.
C15_RunTerminates ==
    /\ []<>(\A i \in DOMAIN runs : Started(i) => runs[i].done)
    /\ [][\A i \in DOMAIN runs :
            /\ runs[i].done => runs'[i] = runs[i]
            /\ (~runs[i].done /\ runs'[i].done) =>
                  /\ last'.ev = "frame"
                  /\ now' >= runs'[i].start + counterDuration
                  /\ text'[runs[i].el] = finalHtml(runs[i].target, runs[i].suffix)
            /\ (\A j \in DOMAIN runs : runs[j].el = runs[i].el => runs[j].done)
                  => text'[runs[i].el] = text[runs[i].el]]_vars

\* A run that started on a later frame than its element's reveal has ended.
C15_Witness ==
    \E i \in DOMAIN runs :
        /\ runs[i].done /\ runs[i].frames = 2
        /\ runs[i].start > 0 /\ now >= runs[i].start + counterDuration
        /\ text[runs[i].el] = finalHtml(runs[i].target, runs[i].suffix)

\* C16: runs in flight on different elements, started on different frames,
\* each use their own start, target and suffix: a run's target and suffix are
\* its element's attributes, its start is its own first frame, the value it
\* shows after a frame is the eased value of its own progress towards its own
\* target, an element shows only text written by its own runs, and a finished
\* element shows its own target and suffix.
C16_OwnClosure ==
    /\ \A i \in DOMAIN runs :
          LET r == runs[i]
          IN  /\ r.target = ToNumber(dataCount[r.el].val)
              /\ r.suffix = IF dataSuffix[r.el].has THEN dataSuffix[r.el].val ELSE <<>>
              /\ (r.frames >= 1 /\ r.first > 0) => r.start = r.first
              /\ r.frames >= 1 =>
                    /\ 0 <= r.shown /\ r.shown <= r.target
                    /\ r.html = NumStr(r.shown) \o r.suffix
              /\ (last.ev = "frame" /\ r.frames >= 1 /\ ~r.done) =>
                    r.shown = easedValue(Progress(now, r.start), r.target)
              /\ r.done => r.shown = r.target
    /\ \A e \in Elements :
          /\ text[e] \in {<<"0">>} \cup {runs[i].html : i \in {j \in DOMAIN runs : runs[j].el = e}}
          /\ (animateCalls[e] >= 1 /\ \A i \in DOMAIN runs : runs[i].el = e => runs[i].done)
                => text[e] = ExpectedFinal(e)

\* Two runs on different elements are in flight after a frame, with different
\* starts and different values on show.
C16_Witness ==
    \E i, j \in DOMAIN runs :
        /\ runs[i].el # runs[j].el
        /\ ~runs[i].done /\ ~runs[j].done
        /\ runs[i].frames >= 1 /\ runs[j].frames >= 1
        /\ runs[i].start > 0 /\ runs[j].start > runs[i].start
        /\ runs[i].shown > 0 /\ runs[j].shown > 0
        /\ text[runs[i].el] # text[runs[j].el]
        /\ last.ev = "frame"

----------------------------------------------------------------------------
(* Properties of the reveal callback *)

\* The batch about to be delivered holds an intersecting entry for e.
intersectingQueued(e) ==
    \E k \in DOMAIN queue : queue[k].target = e /\ queue[k].isIntersecting

runsOf(rs, e) == {i \in DOMAIN rs : rs[i].el = e}

\* C17: an element is marked visible, and its counter started, only by a
\* callback that holds an intersecting entry for it; a callback whose entries
\* for an element are all non-intersecting leaves the element unmarked,
\* registered and without a counter run; and a data-count element's counter
\* is started by the same callback that marks it visible.
C17_OnlyIntersecting ==
    [][\A e \in Elements :
          LET delivered == last'.ev = "callback"
          IN  /\ (e \in visible' /\ e \notin visible) => delivered /\ intersectingQueued(e)
              /\ animateCalls'[e] # animateCalls[e] => delivered /\ intersectingQueued(e)
              /\ runsOf(runs', e) # runsOf(runs, e) => delivered /\ intersectingQueued(e)
              /\ e \in observed' <=> (e \in observed /\ ~(delivered /\ intersectingQueued(e)))
              /\ (delivered /\ intersectingQueued(e)) =>
                    /\ e \in visible'
                    /\ dataCount[e].has =>
                          /\ animateCalls'[e] > animateCalls[e]
                          /\ runsOf(runs', e) # runsOf(runs, e)]_vars

\* A callback delivered a batch in which g2 only had a non-intersecting
\* entry and g1 an intersecting one: g2 is unmarked, registered and has no
\* run; g1 is visible with its counter started.
C17_Witness ==
    /\ last.ev = "callback" /\ queue = <<>>
    /\ reported["g2"] = "out" /\ "g2" \notin visible /\ "g2" \in observed
    /\ animateCalls["g2"] = 0 /\ runsOf(runs, "g2") = {}
    /\ reported["g1"] = "in" /\ "g1" \in visible /\ animateCalls["g1"] = 1
    /\ runs # <<>> /\ runs[1].frames = 0

----------------------------------------------------------------------------
(* Properties across the units *)

revealState == <<visible, observed, revealUp, transitionDelay>>

\* The parts of C18 that hold of every event.
unitFrames ==
    /\ last'.ev = "scroll" => UNCHANGED <<menu, revealState, text, btnLabel>>
    /\ last'.ev \in {"callback", "frame"} => UNCHANGED <<headerScrolled, menu, btnLabel>>
    /\ last'.ev \in {"scaleTimer", "restoreTimer"} =>
          UNCHANGED <<headerScrolled, menu, revealState>>
    /\ menu' # menu => UNCHANGED <<headerScrolled, revealState, text>>

\* C18 as stated: each unit's events change only that unit's own state; in
\* particular every menu transition leaves the video controls' labels
\* unchanged.
C18_AsStated ==
    [][unitFrames /\ (menu' # menu => UNCHANGED btnLabel)]_vars

\* C18, amended: scroll events, watcher callbacks, counter frames and video
\* timers change only their own unit's state, and a menu transition leaves
\* the header marker, reveal state and counter text unchanged; it leaves the
\* video labels unchanged too unless the click that caused it landed on a
\* play button, which both closes an Open menu (an outside click) and puts
\* that button's loading label in place.
C18_UnitFrames ==
    [][/\ unitFrames
       /\ (menu' # menu /\ last'.ev # "playBtn") => UNCHANGED btnLabel
       /\ (menu' # menu /\ last'.ev = "playBtn") =>
             /\ Open(menu) /\ Closed(menu')
             /\ btnLabel'[last'.who] = LoadingLabel
             /\ \A b \in Buttons \ {last'.who} : btnLabel'[b] = btnLabel[b]]_vars

\* The header is marked by an earlier scroll, and a click on a play button
\* while the menu was Open closed the menu and started the loading label.
C18_Witness ==
    /\ headerScrolled /\ scrollHist # <<>>
    /\ last.ev = "playBtn" /\ Open(last.pre) /\ Closed(menu)
    /\ btnLabel[last.who] = LoadingLabel

\* C19: a click inside the navigation list that is on no .nav-link and not in
\* the toggle control leaves an Open menu Open; the menu state changes only
\* on a click on the toggle control, a click on a .nav-link while Open, or a
\* click outside both (a play button included) while Open, and on no other
\* event of the page.
C19_MenuChangesOnlyOn ==
    /\ (last.ev = "navItem" /\ Open(last.pre)) => menu = last.pre
    /\ menu # last.pre =>
          \/ last.ev = "toggle"
          \/ isNavLink(last.ev) /\ Open(last.pre)
          \/ last.ev \in {"outside", "playBtn"} /\ Open(last.pre)

\* The menu was opened from Closed and a click on a plain item of the
\* navigation list left it Open.
C19_Witness ==
    /\ Closed(menu0) /\ clicks = 2
    /\ last.ev = "navItem" /\ Open(last.pre) /\ Open(menu)

====
